---- MODULE Spec2Model ----
(***************************************************************************)
(* Model of the backend of the Material Intelligence Agent.  charts.py:   *)
(* the value parser, the property extraction loops, the normalizer and the *)
(* chart assembly (generate_charts, create_radar_chart).  agent.py: the    *)
(* GeminiClient with its model list, chat_with_retry and                   *)
(* generate_report_data.  main.py: the session document and the handlers   *)
(* chat_endpoint, generate_report and get_chart, interleaved at their      *)
(* awaits of the database.                                                 *)
(*                                                                         *)
(* Python strings that the code inspects (property labels and values) are  *)
(* sequences of one-character strings, so that lower(), the substring test *)
(* and the regular expression are computed, not assumed.  Python floats    *)
(* are exact non-negative rationals [n |-> numerator, d |-> denominator];  *)
(* rounding and overflow of IEEE doubles are not modelled.                 *)
(***************************************************************************)
EXTENDS Integers, Sequences, FiniteSets, TLC

VARIABLES pc, text, parsed, vals, inverse, normalized,
          report_data, charts, tensile_data, density_data, raw_data,
          norm_data, radar_materials, attributes, traces, materials_before,
          calls,
          available_models, current_model_index, model,
          chat_pc, attempt, sends, result, start_index, chat_calls,
          session, requests, response, received

vars == <<pc, text, parsed, vals, inverse, normalized,
          report_data, charts, tensile_data, density_data, raw_data,
          norm_data, radar_materials, attributes, traces, materials_before,
          calls,
          available_models, current_model_index, model,
          chat_pc, attempt, sends, result, start_index, chat_calls,
          session, requests, response, received>>

parseVars == <<text, parsed>>
normVars == <<vals, inverse, normalized>>
chartVars == <<report_data, charts, tensile_data, density_data, raw_data,
               norm_data>>
radarVars == <<radar_materials, attributes, traces, materials_before, calls>>
\* the fields of the GeminiClient object of agent.py
clientVars == <<available_models, current_model_index, model>>
\* a call of chat_with_retry: its position, its loop counter, the attempts
\* it made, what it returned; the index it found; the calls made so far
callVars == <<chat_pc, attempt, sends, result, start_index, chat_calls>>
\* main.py: the session document of sessions_collection; the requests in
\* progress, each with the local variables of its handler; the response
\* sent last; the numbers of chat and of report or chart requests
\* received, and of chat requests replied to
apiVars == <<session, requests, response, received>>
serverVars == <<clientVars, callVars, apiVars>>
chartsVars == <<pc, parseVars, normVars, chartVars, radarVars>>

(***************************************************************************)
(* Bounds of the model.                                                    *)
(***************************************************************************)
\* longest text handed to parse_value in SpecParse
MaxLen == 3
\* longest list handed to normalize in SpecNorm
MaxVals == 3
\* most materials in a matches list
MaxMaterials == 2
\* most property entries over all materials of a matches list
MaxProps == 2
\* most materials handed to create_radar_chart in SpecRadar
MaxRadarMaterials == 6
\* most calls of create_radar_chart on the same list in SpecRadar
MaxCalls == 2
\* most models in available_models
MaxModels == 3
\* most calls of chat_with_retry on the client in SpecChat
MaxChatCalls == 2
\* most requests received in SpecApi
MaxRequests == 3

(***************************************************************************)
(* JSON / Python values.  A field of a dict is missing, null (None), or    *)
(* present with a value; a property value is null, a string or a value of  *)
(* another type (a JSON number).                                           *)
(***************************************************************************)
Missing == [kind |-> "missing"]
None == [kind |-> "null"]
Val(v) == [kind |-> "val", val |-> v]
Str(s) == [kind |-> "str", val |-> s]
Num == [kind |-> "num"]

\* dict.get(key, default): the default only when the key is missing
dict_get(field, default) == IF field.kind = "missing" THEN Val(default) ELSE field

(***************************************************************************)
(* Rationals standing for floats.                                          *)
(***************************************************************************)
Rat(n, d) == [n |-> n, d |-> d]
Zero == Rat(0, 1)
One == Rat(1, 1)
RLe(a, b) == a.n * b.d <= b.n * a.d
REq(a, b) == a.n * b.d = b.n * a.d
RDiv(a, b) == Rat(a.n * b.d, a.d * b.n)
RMul(a, k) == Rat(a.n * k, a.d)
ROneMinus(a) == Rat(a.d - a.n, a.d)

(***************************************************************************)
(* Characters and strings.                                                 *)
(***************************************************************************)
Digits == <<"0", "1", "2", "3", "4", "5", "6", "7", "8", "9">>
\* the lower-case letter of each upper-case letter
ToLower == [A |-> "a", B |-> "b", C |-> "c", D |-> "d", E |-> "e", F |-> "f",
            G |-> "g", H |-> "h", I |-> "i", J |-> "j", K |-> "k", L |-> "l",
            M |-> "m", N |-> "n", O |-> "o", P |-> "p", Q |-> "q", R |-> "r",
            S |-> "s", T |-> "t", U |-> "u", V |-> "v", W |-> "w", X |-> "x",
            Y |-> "y", Z |-> "z"]

DigitSet == {Digits[i] : i \in 1..Len(Digits)}
IsDigit(c) == c \in DigitSet
DigitVal(c) == (CHOOSE i \in 1..Len(Digits) : Digits[i] = c) - 1

\* the Python list with the elements of the comprehension f: TLC keeps a
\* function constructor unevaluated, a list is built once
List(f) == SubSeq(f, 1, Len(f))

\* str.lower()
lower_char(c) == IF c \in DOMAIN ToLower THEN ToLower[c] ELSE c
lower(s) == List([i \in 1..Len(s) |-> lower_char(s[i])])

\* sub in s
contains(sub, s) ==
    \E i \in 0..(Len(s) - Len(sub)) : SubSeq(s, i + 1, i + Len(sub)) = sub

RECURSIVE Pow10(_)
Pow10(k) == IF k = 0 THEN 1 ELSE 10 * Pow10(k - 1)

RECURSIVE DigitsToNat(_)
DigitsToNat(ds) ==
    IF ds = <<>> THEN 0
    ELSE 10 * DigitsToNat(SubSeq(ds, 1, Len(ds) - 1)) + DigitVal(ds[Len(ds)])

(***************************************************************************)
(* parse_value (charts.py 8-21).                                           *)
(***************************************************************************)
\* the character class [\d\.]
IsRunChar(c) == IsDigit(c) \/ c = "."

\* re.search(r"([\d\.]+)", s).group(1): the leftmost, longest run of digits
\* and dots; <<>> when there is no match
re_search(s) ==
    IF \E i \in 1..Len(s) : IsRunChar(s[i])
    THEN LET start == CHOOSE i \in 1..Len(s) :
                        /\ IsRunChar(s[i])
                        /\ \A j \in 1..(i - 1) : ~IsRunChar(s[j])
             stop == CHOOSE e \in start..Len(s) :
                        /\ \A j \in start..e : IsRunChar(s[j])
                        /\ e = Len(s) \/ ~IsRunChar(s[e + 1])
         IN  SubSeq(s, start, stop)
    ELSE <<>>

\* float(run) of a run of digits and dots raises ValueError unless the run
\* has a digit and at most one dot
float_ok(run) ==
    /\ \E i \in 1..Len(run) : IsDigit(run[i])
    /\ Cardinality({i \in 1..Len(run) : run[i] = "."}) <= 1

\* float(run) of such a run: all its digits over 10^(digits after the dot)
float(run) ==
    LET dots == {i \in 1..Len(run) : run[i] = "."}
        frac == IF dots = {} THEN 0
                ELSE Len(run) - (CHOOSE i \in dots : TRUE)
    IN  Rat(DigitsToNat(SelectSeq(run, IsDigit)), Pow10(frac))

\* the call float(match.group(1)): a value, or ValueError raised
float_call(run) ==
    IF float_ok(run) THEN [raised |-> FALSE, val |-> float(run)]
    ELSE [raised |-> TRUE, val |-> Zero]

\* the call without the try: the ValueError leaves parse_value
float_uncaught(run) == float_call(run)

\* try: return float(match.group(1)) / except ValueError: return 0.0
try_float(run) ==
    IF float_call(run).raised THEN [raised |-> FALSE, val |-> Zero]
    ELSE float_call(run)

\* a call of parse_value: what it returns, or that it raised
parse_value_call(t) ==
    IF t.kind # "str" \/ t.val = <<>> THEN [raised |-> FALSE, val |-> Zero]
    ELSE LET run == re_search(t.val)
         IN  IF run = <<>> THEN [raised |-> FALSE, val |-> Zero]
             ELSE try_float(run)

\* the value parse_value returns
parse_value(t) == parse_value_call(t).val

(***************************************************************************)
(* normalize (charts.py 160-165).                                          *)
(***************************************************************************)
\* max(vals) written as min(vals)
min(vs) == vs[CHOOSE i \in 1..Len(vs) : \A j \in 1..Len(vs) : RLe(vs[i], vs[j])]

\* max(vals)
max(vs) == vs[CHOOSE i \in 1..Len(vs) : \A j \in 1..Len(vs) : RLe(vs[j], vs[i])]

\* max_v = max(vals) if vals else 1; if max_v == 0: max_v = 1
max_v(vs) ==
    LET m == IF vs # <<>> THEN max(vs) ELSE One
    IN  IF m.n = 0 THEN One ELSE m

\* normalize without the inverse branch
normalize_direct_only(vs, inv) ==
    LET m == max_v(vs)
    IN  List([i \in 1..Len(vs) |-> RMul(RDiv(vs[i], m), 100)])

normalize(vs, inv) ==
    LET m == max_v(vs)
    IN  IF inv
        THEN List([i \in 1..Len(vs) |-> RMul(ROneMinus(RDiv(vs[i], m)), 100)])
        ELSE List([i \in 1..Len(vs) |-> RMul(RDiv(vs[i], m), 100)])

(***************************************************************************)
(* Property extraction (charts.py 127-150 and 170-207).                    *)
(***************************************************************************)
kw_tensile == <<"t", "e", "n", "s", "i", "l", "e">>
kw_strength == <<"s", "t", "r", "e", "n", "g", "t", "h">>
kw_density == <<"d", "e", "n", "s", "i", "t", "y">>
kw_cost == <<"c", "o", "s", "t">>
kw_corrosion == <<"c", "o", "r", "r", "o", "s", "i", "o", "n">>
kw_temp == <<"t", "e", "m", "p">>
kw_melting == <<"m", "e", "l", "t", "i", "n", "g">>
kw_excellent == <<"e", "x", "c", "e", "l", "l", "e", "n", "t">>
kw_good == <<"g", "o", "o", "d">>
kw_fair == <<"f", "a", "i", "r">>
kw_poor == <<"p", "o", "o", "r">>
kw_quota == <<"q", "u", "o", "t", "a">>

\* the keywords each loop of generate_charts tests the lowered label for
StrengthKeys == {kw_tensile, kw_strength}
DensityKeys == {kw_density}
CostKeys == {kw_cost}
CorrosionKeys == {kw_corrosion}
TempKeys == {kw_temp, kw_melting}

\* "tensile" in k.lower() or "strength" in k.lower()
key_matches(k, kws) ==
    LET k_lower == lower(k)
    IN  \E kw \in kws : contains(kw, k_lower)

\* the extraction loop without its break: the last matching label wins
RECURSIVE last_value(_, _)
last_value(items, kws) ==
    IF items = <<>> THEN Zero
    ELSE LET n == Len(items)
         IN  IF key_matches(items[n].k, kws) THEN parse_value(items[n].v)
             ELSE last_value(SubSeq(items, 1, n - 1), kws)

\* val = 0; for k, v in props.items(): if <match>: val = parse_value(v); break
\* items is the insertion-ordered list of the mapping's (k, v) pairs
RECURSIVE first_value(_, _)
first_value(items, kws) ==
    IF items = <<>> THEN Zero
    ELSE IF key_matches(Head(items).k, kws) THEN parse_value(Head(items).v)
    ELSE first_value(Tail(items), kws)

\* the if/elif chain of the corrosion loop; cor_val keeps its default 50
cor_score(v_lower) ==
    IF contains(kw_excellent, v_lower) THEN 95
    ELSE IF contains(kw_good, v_lower) THEN 75
    ELSE IF contains(kw_fair, v_lower) THEN 50
    ELSE IF contains(kw_poor, v_lower) THEN 25
    ELSE 50

\* the corrosion loop testing v in place of v.lower()
RECURSIVE corrosion_case_sensitive(_)
corrosion_case_sensitive(items) ==
    IF items = <<>> THEN [raised |-> FALSE, val |-> 50]
    ELSE IF key_matches(Head(items).k, CorrosionKeys)
         THEN IF Head(items).v.kind # "str"
              THEN [raised |-> TRUE, val |-> 50]
              ELSE [raised |-> FALSE, val |-> cor_score(Head(items).v.val)]
    ELSE corrosion_case_sensitive(Tail(items))

\* the corrosion loop; v.lower() raises AttributeError when v is no string
RECURSIVE corrosion(_)
corrosion(items) ==
    IF items = <<>> THEN [raised |-> FALSE, val |-> 50]
    ELSE IF key_matches(Head(items).k, CorrosionKeys)
         THEN IF Head(items).v.kind # "str"
              THEN [raised |-> TRUE, val |-> 50]
              ELSE [raised |-> FALSE, val |-> cor_score(lower(Head(items).v.val))]
    ELSE corrosion(Tail(items))

\* the test written with >= for >
any_non_negative(data) == \E i \in 1..Len(data) : data[i][2].n >= 0

\* any(d[1] > 0 for d in data)
any_positive(data) == \E i \in 1..Len(data) : data[i][2].n > 0

(***************************************************************************)
(* create_radar_chart (charts.py 66-114).  A plotted trace is recorded by  *)
(* what ax.plot is given.                                                  *)
(***************************************************************************)
\* a palette whose last color repeats the first
colors_repeated == <<"#e74c3c", "#3498db", "#2ecc71", "#9b59b6", "#e74c3c">>

\* len(colors) and len(linestyles)
PaletteSize == 5

colors == <<"#e74c3c", "#3498db", "#2ecc71", "#9b59b6", "#f1c40f">>
linestyles == <<"-", "--", "-.", ":", "-">>

\* angles = [n / float(N) * 2 * pi for n in range(N)]; angles += angles[:1]
\* (each angle in units of 2*pi/N)
angles(N) ==
    LET a == List([n \in 1..N |-> n - 1])
    IN  a \o SubSeq(a, 1, 1)

\* values += values[:1], in place
close_loop(values) == values \o SubSeq(values, 1, 1)

\* colors[i % len(colors)], linestyles[i % len(linestyles)] for the 0-based i
color_of(i) == colors[(i % Len(colors)) + 1]
linestyle_of(i) == linestyles[(i % Len(linestyles)) + 1]

\* The loop over materials.  ax.plot(angles, values) raises ValueError when
\* the two lists differ in length; the materials before the failing one
\* have been plotted, and it and they have had their values list extended.
create_radar_chart(materials, attrs) ==
    LET ang == angles(Len(attrs))
        closed == List([i \in 1..Len(materials) |-> close_loop(materials[i].values)])
        bad == {i \in 1..Len(materials) : Len(closed[i]) # Len(ang)}
        stop == IF bad = {} THEN Len(materials) + 1
                ELSE CHOOSE i \in bad : \A j \in bad : i <= j
    IN  [raised |-> bad # {},
         materials |-> List([i \in 1..Len(materials) |->
                          IF i <= stop
                          THEN [name |-> materials[i].name, values |-> closed[i]]
                          ELSE materials[i]]),
         traces |-> List([i \in 1..(stop - 1) |->
                       [label |-> materials[i].name,
                        color |-> color_of(i - 1),
                        linestyle |-> linestyle_of(i - 1),
                        x |-> ang,
                        y |-> closed[i]]])]

(***************************************************************************)
(* generate_charts (charts.py 116-231).  A bar chart is recorded by the    *)
(* data it is drawn from, the radar chart by its traces; matplotlib's      *)
(* rendering itself is outside the model.                                  *)
(***************************************************************************)
Attributes == <<"Strength", "Density", "Cost", "Corrosion", "Temp">>

NoCharts(status) ==
    [status |-> status, charts |-> {}, tensile_data |-> <<>>,
     density_data |-> <<>>,
     raw_data |-> [a \in {} |-> <<>>], norm_data |-> [a \in {} |-> <<>>],
     radar_materials |-> <<>>, traces |-> <<>>]

generate_charts(rd) ==
    LET matches == dict_get(rd.matches, <<>>)
    IN  IF matches.kind = "null" \/ matches.val = <<>> THEN NoCharts("done")
        ELSE
        LET ms == matches.val
            idx == 1..Len(ms)
            props(i) == dict_get(ms[i].properties, <<>>)
            name(i) == dict_get(ms[i].name, "Unknown")
        IN  \* props.items() raises AttributeError when props is None
            IF \E i \in idx : props(i).kind = "null" THEN NoCharts("raised")
            ELSE
            LET ps == List([i \in idx |-> props(i).val])
                tensile == List([i \in idx |->
                                   <<name(i), first_value(ps[i], StrengthKeys)>>])
                density == List([i \in idx |->
                                   <<name(i), first_value(ps[i], DensityKeys)>>])
                cor == List([i \in idx |-> corrosion(ps[i])])
            IN  IF \E i \in idx : cor[i].raised THEN NoCharts("raised")
                ELSE
                LET raw == [Strength |-> List([i \in idx |-> first_value(ps[i], StrengthKeys)]),
                            Density |-> List([i \in idx |-> first_value(ps[i], DensityKeys)]),
                            Cost |-> List([i \in idx |-> first_value(ps[i], CostKeys)]),
                            Corrosion |-> List([i \in idx |-> Rat(cor[i].val, 1)]),
                            Temp |-> List([i \in idx |-> first_value(ps[i], TempKeys)])]
                    norm == [Strength |-> normalize(raw.Strength, FALSE),
                             Density |-> normalize(raw.Density, TRUE),
                             Cost |-> normalize(raw.Cost, TRUE),
                             Corrosion |-> raw.Corrosion,
                             Temp |-> normalize(raw.Temp, FALSE)]
                    radar == List([i \in idx |->
                                     [name |-> name(i),
                                      values |-> <<norm.Strength[i],
                                                   norm.Density[i],
                                                   norm.Cost[i],
                                                   norm.Corrosion[i],
                                                   norm.Temp[i]>>]])
                    chart == create_radar_chart(radar, Attributes)
                IN  [status |-> IF chart.raised THEN "raised" ELSE "done",
                     charts |-> (IF any_positive(tensile) THEN {"tensile"} ELSE {})
                                \cup (IF any_positive(density) THEN {"density"} ELSE {})
                                \cup {"radar"},
                     tensile_data |-> tensile,
                     density_data |-> density,
                     raw_data |-> raw,
                     norm_data |-> norm,
                     radar_materials |-> chart.materials,
                     traces |-> chart.traces]

(***************************************************************************)
(* Inputs.                                                                 *)
(***************************************************************************)
RECURSIVE SeqsUpTo(_, _)
\* the sequences over S of length at most n
SeqsUpTo(S, n) ==
    IF n = 0 THEN {<<>>}
    ELSE LET shorter == SeqsUpTo(S, n - 1)
         IN  shorter \cup {Append(q, x) : q \in shorter, x \in S}

\* the characters of the texts handed to parse_value
Chars == {"0", "4", "5", ".", "M", " "}
Texts(len) == {Str(t) : t \in SeqsUpTo(Chars, len)} \cup {None, Num}

\* the raw values handed to normalize
RawVals == {Zero, Rat(25, 10), Rat(50, 1), Rat(100, 1)}

\* labels and values of the properties of a well-typed matches list:
\* "Tensile", "STRENGTH", "Density", "Cost", "Max Temp" and "Corrosion";
\* "0", "2.5 g", "10", and the ratings "Good" and "POOR"
label_tensile == <<"T", "e", "n", "s", "i", "l", "e">>
label_strength == <<"S", "T", "R", "E", "N", "G", "T", "H">>
label_density == <<"D", "e", "n", "s", "i", "t", "y">>
label_cost == <<"C", "o", "s", "t">>
label_temp == <<"M", "a", "x", " ", "T", "e", "m", "p">>
label_corrosion == <<"C", "o", "r", "r", "o", "s", "i", "o", "n">>
value_zero == <<"0">>
value_low == <<"2", ".", "5", " ", "g">>
value_high == <<"1", "0">>
value_good == <<"G", "o", "o", "d">>
value_poor == <<"P", "O", "O", "R">>
NumericLabels == {label_tensile, label_strength, label_density, label_cost, label_temp}
NumericValues == {Str(value_zero), Str(value_low), Str(value_high)}
Ratings == {Str(value_good), Str(value_poor)}
Entries ==
    {[k |-> k, v |-> v] : k \in NumericLabels, v \in NumericValues}
    \cup {[k |-> label_corrosion, v |-> v] : v \in Ratings}

\* labels and values of the corrosion ratings: "Corrosion", "CORROSION" and
\* "Cost"; "Excellent", "Good", "fair", "POOR", "poor/good" and "10"
label_corrosion_upper == <<"C", "O", "R", "R", "O", "S", "I", "O", "N">>
value_excellent == <<"E", "x", "c", "e", "l", "l", "e", "n", "t">>
value_fair == <<"f", "a", "i", "r">>
value_mixed == <<"p", "o", "o", "r", "/", "g", "o", "o", "d">>
CorrosionEntries ==
    {[k |-> k, v |-> Str(v)] :
       k \in {label_corrosion, label_corrosion_upper, label_cost},
       v \in {value_excellent, value_good, value_fair, value_poor, value_mixed,
              value_high}}

\* labels and values of a matches list with null fields
NullEntries == {[k |-> k, v |-> v] :
                  k \in {label_tensile, label_corrosion},
                  v \in {Str(value_low), None}}

\* the name of the material at position i
NameOf(i) == "M" \o ToString(i)

\* the kinds of name and of properties field of a well-typed material, and
\* of one that may have either missing or null
TypedNames(i) == {Val(NameOf(i))}
TypedProperties == {Val(<<>>)}
NullableNames(i) == {Val(NameOf(i)), None, Missing}
NullableProperties == {Val(<<>>), None, Missing}

RECURSIVE total_props(_)
\* the number of property entries over all materials of a list
total_props(ms) ==
    IF ms = <<>> THEN 0
    ELSE (IF Head(ms).properties.kind = "val" THEN Len(Head(ms).properties.val) ELSE 0)
         + total_props(Tail(ms))

\* the score vectors of the lists handed to create_radar_chart
ScoreVectors == {<<0, 100, 100, 50, 0>>, <<100, 0, 50, 95, 25>>}
RadarAttributes == {Attributes, SubSeq(Attributes, 1, 3)}
RadarLists(attrs) ==
    UNION {{[i \in 1..n |-> [name |-> Val(NameOf(i)),
                             values |-> SubSeq(f[i], 1, Len(attrs))]] :
              f \in [1..n -> ScoreVectors]} :
             n \in 1..MaxRadarMaterials}

(***************************************************************************)
(* agent.py: the GeminiClient.  available_models is the list of the model  *)
(* names, current_model_index is counted from 0 as in the code, and model  *)
(* is the name of the model the next send goes to.  Times are in tenths of *)
(* a second.                                                               *)
(***************************************************************************)
max_retries == 5
base_delay == 2

\* the priority list of __init__ and the model it defaults to
priorities == <<"gemini-1.5-flash", "gemini-1.5-pro", "gemini-1.0-pro", "gemini-pro">>
default_model == "gemini-1.5-flash-001"
\* the models list_models() can give: those of the priority list, then
\* one of another name
listed_models == priorities \o <<"gemini-ultra">>

\* str(e) of the exceptions of start_chat / send_message / response.text:
\* "429", "Quota", "404", "404 quota" and "500"
err_429 == <<"4", "2", "9">>
Errors ==
    {err_429, <<"Q", "u", "o", "t", "a">>, <<"4", "0", "4">>,
     <<"4", "0", "4", " ", "q", "u", "o", "t", "a">>, <<"5", "0", "0">>}

\* what one attempt ends in: the text of the response, or an exception
Replies == {[ok |-> TRUE, error |-> <<>>]} \cup {[ok |-> FALSE, error |-> e] : e \in Errors}

\* random.uniform(0, 1), in tenths of a second
Jitters == {0, 5, 10}

\* "429" in error_str or "quota" in error_str.lower()
is_rate_limit(e) == contains(<<"4", "2", "9">>, e) \/ contains(kw_quota, lower(e))
\* "404" in error_str
is_not_found(e) == contains(<<"4", "0", "4">>, e)

\* what chat_with_retry returns
NoResult == [kind |-> "none", error |-> <<>>]
Text == [kind |-> "text", error |-> <<>>]
CommError(e) == [kind |-> "Error communicating with AI: ", error |-> e]
Unavailable ==
    [kind |-> "Error: All AI models are currently unavailable or rate limited.",
     error |-> <<>>]

\* a delay that does not grow with the attempt
fixed_delay(att, jitter) == 10 * base_delay + jitter

\* base_delay * (2 ** attempt) + random.uniform(0, 1)
backoff_delay(att, jitter) == 10 * base_delay * (2 ^ att) + jitter

\* a switch that moves the index and leaves self.model behind
switch_index_only(ms, idx, mdl) ==
    IF Len(ms) <= 1 THEN [switched |-> FALSE, index |-> idx, model |-> mdl]
    ELSE [switched |-> TRUE, index |-> (idx + 1) % Len(ms), model |-> mdl]

\* _switch_model(): the next model of the list, cyclically; False when
\* there is no other model
switch_model(ms, idx, mdl) ==
    IF Len(ms) <= 1 THEN [switched |-> FALSE, index |-> idx, model |-> mdl]
    ELSE [switched |-> TRUE, index |-> (idx + 1) % Len(ms),
          model |-> ms[((idx + 1) % Len(ms)) + 1]]

\* the body of the for loop for one attempt: return (returned, with the
\* result) or continue (with the time slept), and the client it leaves
attempt_body(ms, idx, mdl, att, reply, jitter) ==
    LET sw == switch_model(ms, idx, mdl)
        stay(res) == [returned |-> TRUE, result |-> res, sleep |-> 0,
                      index |-> idx, model |-> mdl]
    IN  IF reply.ok THEN stay(Text)
        ELSE IF is_rate_limit(reply.error) /\ sw.switched
        THEN [returned |-> FALSE, result |-> NoResult, sleep |-> 10,
              index |-> sw.index, model |-> sw.model]
        ELSE IF is_rate_limit(reply.error) /\ att < max_retries - 1
        THEN [returned |-> FALSE, result |-> NoResult,
              sleep |-> backoff_delay(att, jitter), index |-> idx, model |-> mdl]
        ELSE IF is_not_found(reply.error) /\ sw.switched
        THEN [returned |-> FALSE, result |-> NoResult, sleep |-> 0,
              index |-> sw.index, model |-> sw.model]
        ELSE stay(CommError(reply.error))

(***************************************************************************)
(* agent.py: a whole call of chat_with_retry, and generate_report_data.    *)
(* The call does not await: no other handler runs before it returns.       *)
(***************************************************************************)
RECURSIVE chat_with_retry(_, _, _)
\* the results the loop can return from attempt att on, with the client it
\* leaves, over what the sends can end in; clients is the set of states
\* the client can be in when attempt att begins
chat_with_retry(ms, clients, att) ==
    IF clients = {} THEN {}
    ELSE IF att = max_retries
    THEN {[result |-> Unavailable, index |-> c.index, model |-> c.model] : c \in clients}
    ELSE UNION {
           {[result |-> r.result, index |-> r.index, model |-> r.model] :
              r \in {st \in steps : st.returned}}
           \cup chat_with_retry(ms, {[index |-> r.index, model |-> r.model] :
                                       r \in {st \in steps : ~st.returned}}, att + 1) :
           steps \in {{attempt_body(ms, c.index, c.model, att, reply, 0) :
                         c \in clients, reply \in Replies}}}

\* what json.loads can give for the text of the model, for a history of
\* the given length: one material with a tensile strength, one material
\* whose properties are null, or the empty object
report_full(turns) ==
    [kind |-> "dict", recommendation |-> Val("M1"), turns |-> turns,
     matches |-> Val(<<[name |-> Val("M1"),
                        properties |-> Val(<<[k |-> label_tensile,
                                              v |-> Str(value_high)]>>)]>>)]
report_null_properties(turns) ==
    [kind |-> "dict", recommendation |-> Val("M1"), turns |-> turns,
     matches |-> Val(<<[name |-> Val("M1"), properties |-> None]>>)]
report_empty(turns) ==
    [kind |-> "dict", recommendation |-> Missing, turns |-> turns,
     matches |-> Missing]
\* the dict of the except branch of generate_report_data
report_fallback(turns) ==
    [kind |-> "dict", recommendation |-> Val("Unknown"), turns |-> turns,
     matches |-> Val(<<>>)]

Parsed(turns) ==
    {report_full(turns), report_null_properties(turns), report_empty(turns)}

\* generate_report_data(history): the data returned and the client left
generate_report_data(ms, idx, mdl, history) ==
    UNION {IF r.result = Text
           THEN {[data |-> d, index |-> r.index, model |-> r.model] :
                   d \in Parsed(Len(history)) \cup {report_fallback(Len(history))}}
           ELSE {[data |-> report_fallback(Len(history)), index |-> r.index,
                  model |-> r.model]} :
           r \in chat_with_retry(ms, {[index |-> idx, model |-> mdl]}, 0)}

(***************************************************************************)
(* main.py: the session document and the three handlers.  A handler runs   *)
(* from one await of a database call to the next without interruption.     *)
(***************************************************************************)
NoSession == [kind |-> "none"]
\* create_session(): the new document
new_session == [kind |-> "session", title |-> <<"New Chat">>, history |-> <<>>,
                report_data |-> Missing]

\* the message of the i-th chat request: 31 characters, or i characters
ChatMessage(i) ==
    IF i = 2 THEN List([j \in 1..31 |-> "b"]) ELSE List([j \in 1..i |-> "a"])
\* the chart_type of the requests: a chart generate_charts makes for
\* report_full and not for report_fallback
ChartTypes == {"tensile"}

\* request.message[:30] + "..." if len(request.message) > 30 else request.message
title_of(message) ==
    IF Len(message) > 30 THEN SubSeq(message, 1, 30) \o <<".", ".", ".">> ELSE message

\* session.get("report_data"): None when the document has no such field
session_get(field) == IF field = Missing THEN None ELSE field
\* a test that takes every stored value as missing
not_anything(rd) == TRUE

\* not report_data: None and the empty dict are falsy
not_report_data(rd) ==
    rd.kind = "null" \/ (rd.kind = "dict" /\ rd.matches = Missing /\ rd.recommendation = Missing)

\* the status of an HTTPException raised inside the try of get_chart: the
\* except clause catches it and raises status 500 in its place
raised_in_try(status) == 500

\* a request and the local variables of its handler
Request(kind, at) ==
    [kind |-> kind, pc |-> at, message |-> <<>>, history |-> <<>>,
     report_data |-> None, found |-> None, generated |-> FALSE,
     chart_type |-> "", status |-> 0, reply |-> "", cause |-> ""]
\* the response is sent; the copy of the history is dropped
Responded(r, status, cause) ==
    [r EXCEPT !.pc = "done", !.status = status, !.cause = cause, !.history = <<>>]

\* the rest of generate_report (the PDF with the charts) and of get_chart
\* (the chart asked for) once report_data is there and generate_charts has
\* returned c or raised
view_response(r, c) ==
    IF c.status = "raised" THEN Responded(r, 500, "failure")
    ELSE IF r.kind = "report" \/ r.chart_type \in c.charts THEN Responded(r, 200, "")
    ELSE Responded(r, raised_in_try(404), "no chart")

\* the requests for a report or a chart
Views ==
    {[kind |-> "report", chart_type |-> ""]}
    \cup {[kind |-> "chart", chart_type |-> t] : t \in ChartTypes}

\* the list without its i-th entry
Remove(list, i) == SubSeq(list, 1, i - 1) \o SubSeq(list, i + 1, Len(list))

(***************************************************************************)
(* Initial states: one per specification, the variables of the other       *)
(* functions at rest.                                                      *)
(***************************************************************************)
ParseIdle == text = None /\ parsed = Zero
NormIdle == vals = <<>> /\ inverse = FALSE /\ normalized = <<>>
ChartsIdle(rd) ==
    /\ report_data = rd
    /\ charts = {}
    /\ tensile_data = <<>>
    /\ density_data = <<>>
    /\ raw_data = [a \in {} |-> <<>>]
    /\ norm_data = [a \in {} |-> <<>>]
RadarIdle ==
    /\ radar_materials = <<>>
    /\ attributes = Attributes
    /\ traces = <<>>
    /\ materials_before = <<>>
    /\ calls = 0

\* the client after model discovery found one model; no call made
ClientIdle ==
    /\ available_models = <<listed_models[1]>>
    /\ current_model_index = 0
    /\ model = listed_models[1]
CallIdle ==
    /\ chat_pc = "idle"
    /\ attempt = 0
    /\ sends = <<>>
    /\ result = NoResult
    /\ start_index = 0
    /\ chat_calls = 0
\* no session created, no request received
ApiIdle ==
    /\ session = NoSession
    /\ requests = <<>>
    /\ response = Request("", "idle")
    /\ received = [chat |-> 0, view |-> 0, replied |-> 0]
ServerIdle == ClientIdle /\ CallIdle /\ ApiIdle

InitParse ==
    /\ pc = "idle"
    /\ text \in Texts(MaxLen)
    /\ parsed = Zero
    /\ NormIdle /\ ChartsIdle([matches |-> Missing]) /\ RadarIdle /\ ServerIdle

InitNorm ==
    /\ pc = "idle"
    /\ vals \in SeqsUpTo(RawVals, MaxVals)
    /\ inverse \in BOOLEAN
    /\ normalized = <<>>
    /\ ParseIdle /\ ChartsIdle([matches |-> Missing]) /\ RadarIdle /\ ServerIdle

\* the report before any material is put in it: matches missing, null or
\* the empty list
Init ==
    /\ pc = "idle"
    /\ \E m \in {Missing, None, Val(<<>>)} : ChartsIdle([matches |-> m])
    /\ ParseIdle /\ NormIdle /\ RadarIdle /\ ServerIdle

\* GeminiClient.__init__: the models found, in priority order, the first
\* of them selected; or the default model alone when discovery failed
InitChat ==
    /\ available_models \in
          {SubSeq(listed_models, 1, n) : n \in 1..MaxModels} \cup {<<default_model>>}
    /\ current_model_index = 0
    /\ model = available_models[1]
    /\ CallIdle /\ ApiIdle
    /\ pc = "idle"
    /\ ParseIdle /\ NormIdle /\ ChartsIdle([matches |-> Missing]) /\ RadarIdle

\* the server after start-up: the client of ClientIdle, no session yet
InitApi ==
    /\ ServerIdle
    /\ pc = "idle"
    /\ ParseIdle /\ NormIdle /\ ChartsIdle([matches |-> Missing]) /\ RadarIdle

InitRadar ==
    /\ pc = "idle"
    /\ attributes \in RadarAttributes
    /\ radar_materials \in RadarLists(attributes)
    /\ materials_before = radar_materials
    /\ traces = <<>>
    /\ calls = 0
    /\ ParseIdle /\ NormIdle /\ ChartsIdle([matches |-> Missing]) /\ ServerIdle

(***************************************************************************)
(* Actions: one per function called.                                       *)
(***************************************************************************)
\* The report data assembler (the parsed reply of the language model)
\* puts one more material into matches ...
AddMatchOf(nullable) ==
    /\ pc = "idle"
    /\ report_data.matches.kind = "val"
    /\ Len(report_data.matches.val) < MaxMaterials
    /\ \E nm \in IF nullable THEN NullableNames(Len(report_data.matches.val) + 1)
                   ELSE TypedNames(Len(report_data.matches.val) + 1),
          pr \in IF nullable THEN NullableProperties ELSE TypedProperties :
           report_data' = [matches |->
               Val(Append(report_data.matches.val, [name |-> nm, properties |-> pr]))]
    /\ UNCHANGED <<pc, charts, tensile_data, density_data, raw_data, norm_data,
                   parseVars, normVars, radarVars, serverVars>>

\* ... and one more property, of a label it does not have yet, into the
\* properties mapping of the last material
AddPropertyOf(entries) ==
    /\ pc = "idle"
    /\ report_data.matches.kind = "val"
    /\ report_data.matches.val # <<>>
    /\ total_props(report_data.matches.val) < MaxProps
    /\ LET ms == report_data.matches.val
           last == ms[Len(ms)]
       IN  /\ last.properties.kind = "val"
           /\ \E e \in entries :
                 /\ \A j \in 1..Len(last.properties.val) : last.properties.val[j].k # e.k
                 /\ report_data' = [matches |->
                        Val([ms EXCEPT ![Len(ms)].properties = Val(Append(@.val, e))])]
    /\ UNCHANGED <<pc, charts, tensile_data, density_data, raw_data, norm_data,
                   parseVars, normVars, radarVars, serverVars>>

AddMatch == AddMatchOf(FALSE)
AddProperty == AddPropertyOf(Entries)
AddNullableMatch == AddMatchOf(TRUE)
AddNullableProperty == AddPropertyOf(NullEntries)
AddCorrosionProperty == AddPropertyOf(CorrosionEntries)

\* parse_value(text)
ParseValue ==
    /\ pc = "idle"
    /\ \E r \in {parse_value_call(text)} :
           /\ parsed' = r.val
           /\ pc' = IF r.raised THEN "raised" ELSE "done"
    /\ UNCHANGED <<text, normVars, chartVars, radarVars, serverVars>>

\* normalize(vals, inverse)
Normalize ==
    /\ pc = "idle"
    /\ normalized' = normalize(vals, inverse)
    /\ pc' = "done"
    /\ UNCHANGED <<vals, inverse, parseVars, chartVars, radarVars, serverVars>>

\* generate_charts(report_data): returns the charts or raises
GenerateCharts ==
    /\ pc = "idle"
    /\ \E r \in {generate_charts(report_data)} :
           /\ pc' = r.status
           /\ charts' = r.charts
           /\ tensile_data' = r.tensile_data
           /\ density_data' = r.density_data
           /\ raw_data' = r.raw_data
           /\ norm_data' = r.norm_data
           /\ radar_materials' = r.radar_materials
           /\ traces' = r.traces
    /\ UNCHANGED <<report_data, attributes, materials_before, calls,
                   parseVars, normVars, serverVars>>

\* create_radar_chart(radar_materials, attributes), by a caller that keeps
\* its list and may call again
CreateRadarChart ==
    /\ pc \in {"idle", "done"}
    /\ calls < MaxCalls
    /\ \E r \in {create_radar_chart(radar_materials, attributes)} :
           /\ pc' = IF r.raised THEN "raised" ELSE "done"
           /\ radar_materials' = r.materials
           /\ traces' = r.traces
    /\ calls' = calls + 1
    /\ UNCHANGED <<attributes, materials_before, parseVars, normVars, chartVars,
                   serverVars>>

\* chat_with_retry(message, history) is called: the loop starts with the
\* model the client has selected
StartChat ==
    /\ chat_pc \in {"idle", "returned"}
    /\ chat_calls < MaxChatCalls
    /\ chat_pc' = "sending"
    /\ attempt' = 0
    /\ sends' = <<>>
    /\ result' = NoResult
    /\ start_index' = current_model_index
    /\ chat_calls' = chat_calls + 1
    /\ UNCHANGED <<clientVars, apiVars, chartsVars>>

\* one pass through the loop body: the send, and the handling of what it
\* raised; the loop ends after max_retries passes
Send ==
    /\ chat_pc = "sending"
    /\ attempt < max_retries
    /\ \E reply \in Replies, jitter \in Jitters :
         \E r \in {attempt_body(available_models, current_model_index, model,
                                attempt, reply, jitter)} :
           /\ sends' = Append(sends, [model |-> model, reply |-> reply,
                                       sleep |-> r.sleep])
           /\ current_model_index' = r.index
           /\ model' = r.model
           /\ attempt' = IF r.returned THEN attempt ELSE attempt + 1
           /\ chat_pc' = IF r.returned \/ attempt + 1 = max_retries
                         THEN "returned" ELSE "sending"
           /\ result' = IF r.returned THEN r.result
                        ELSE IF attempt + 1 = max_retries THEN Unavailable
                        ELSE NoResult
    /\ UNCHANGED <<available_models, start_index, chat_calls, apiVars, chartsVars>>

\* A handler that has report_data goes on to the charts and the response
\* without an await: no other handler runs while response.pc is "render".

\* create_session()
CreateSession ==
    /\ response.pc # "render"
    /\ session = NoSession
    /\ session' = new_session
    /\ UNCHANGED <<requests, response, received, clientVars, callVars, chartsVars>>

\* chat_endpoint, lines 76-93: find_one, then the user message appended to
\* the copy of the history, up to the await of the first update_one
ChatFind ==
    /\ response.pc # "render"
    /\ received.chat + received.view < MaxRequests
    /\ received' = [received EXCEPT !.chat = @ + 1]
    /\ \E r \in {[Request("chat", "update") EXCEPT
                    !.message = ChatMessage(received.chat + 1)]} :
          IF session = NoSession
          THEN /\ response' = Responded(r, 404, "no session")
               /\ UNCHANGED requests
          ELSE /\ requests' = Append(requests,
                     [r EXCEPT !.history = Append(session.history,
                                  [role |-> "user", content |-> r.message])])
               /\ UNCHANGED response
    /\ UNCHANGED <<session, clientVars, callVars, chartsVars>>

\* chat_endpoint, lines 90-101: the first update_one is applied, with the
\* title when the copy has one entry; process_chat; the reply appended to
\* the copy, up to the await of the second update_one
ChatStoreMessage(i) ==
    /\ response.pc # "render"
    /\ requests[i].kind = "chat" /\ requests[i].pc = "update"
    /\ session' = [session EXCEPT
                     !.history = requests[i].history,
                     !.title = IF Len(requests[i].history) = 1
                               THEN title_of(requests[i].message) ELSE @]
    /\ \E r \in chat_with_retry(available_models,
                                 {[index |-> current_model_index, model |-> model]}, 0) :
          /\ current_model_index' = r.index
          /\ model' = r.model
          /\ requests' = [requests EXCEPT ![i] =
                 [@ EXCEPT !.pc = "update2", !.reply = r.result.kind,
                           !.history = Append(@, [role |-> "assistant",
                                                  content |-> <<r.result.kind, Len(requests[i].message)>>])]]
    /\ UNCHANGED <<available_models, response, received, callVars, chartsVars>>

\* chat_endpoint, lines 98-103: the second update_one is applied, the reply
\* is returned
ChatStoreReply(i) ==
    /\ response.pc # "render"
    /\ requests[i].kind = "chat" /\ requests[i].pc = "update2"
    /\ session' = [session EXCEPT !.history = requests[i].history]
    /\ response' = Responded(requests[i], 200, "")
    /\ requests' = Remove(requests, i)
    /\ received' = [received EXCEPT !.replied = @ + 1]
    /\ UNCHANGED <<clientVars, callVars, chartsVars>>

\* generate_report (lines 107-121) and get_chart (lines 382-399): find_one,
\* then either the stored report_data, or generate_report_data up to the
\* await of update_one
ViewFind ==
    /\ response.pc # "render"
    /\ received.chat + received.view < MaxRequests
    /\ received' = [received EXCEPT !.view = @ + 1]
    /\ \E v \in Views :
       \E r \in {[Request(v.kind, "update") EXCEPT !.chart_type = v.chart_type]} :
          IF session = NoSession
          THEN /\ response' = Responded(r, IF r.kind = "report" THEN 404
                                           ELSE raised_in_try(404), "no session")
               /\ UNCHANGED <<requests, clientVars>>
          ELSE \E rd \in {session_get(session.report_data)} :
                 IF not_report_data(rd)
                 THEN \E g \in generate_report_data(available_models, current_model_index,
                                                     model, session.history) :
                        /\ current_model_index' = g.index
                        /\ model' = g.model
                        /\ requests' = Append(requests,
                               [r EXCEPT !.found = rd, !.generated = TRUE,
                                         !.report_data = g.data])
                        /\ UNCHANGED <<available_models, response>>
                 ELSE /\ response' = [r EXCEPT !.found = rd, !.report_data = rd,
                                               !.pc = "render"]
                      /\ UNCHANGED <<requests, clientVars>>
    /\ UNCHANGED <<session, callVars, chartsVars>>

\* generate_report (lines 118-121) and get_chart (lines 396-399): the
\* update_one of report_data is applied
ViewStore(i) ==
    /\ response.pc # "render"
    /\ requests[i].kind \in {"report", "chart"} /\ requests[i].pc = "update"
    /\ session' = [session EXCEPT !.report_data = requests[i].report_data]
    /\ response' = [requests[i] EXCEPT !.pc = "render"]
    /\ requests' = Remove(requests, i)
    /\ UNCHANGED <<received, clientVars, callVars, chartsVars>>

\* generate_report (lines 123-378) and get_chart (lines 401-411), which
\* follow without an await: generate_charts(report_data) and the response
Render ==
    /\ response.pc = "render"
    /\ \E c \in {generate_charts(response.report_data)} :
          response' = view_response(response, c)
    /\ UNCHANGED <<session, requests, received, clientVars, callVars, chartsVars>>

NextParse == ParseValue
NextNorm == Normalize
Next == AddMatch \/ AddProperty \/ GenerateCharts
NextNull == AddNullableMatch \/ AddNullableProperty \/ GenerateCharts
NextRadar == CreateRadarChart
NextChat == StartChat \/ Send
NextApi ==
    \/ CreateSession
    \/ ChatFind
    \/ \E i \in 1..Len(requests) : ChatStoreMessage(i)
    \/ \E i \in 1..Len(requests) : ChatStoreReply(i)
    \/ ViewFind
    \/ \E i \in 1..Len(requests) : ViewStore(i)
    \/ Render
NextCorrosion == AddMatch \/ AddCorrosionProperty \/ GenerateCharts

SpecParse == InitParse /\ [][NextParse]_vars
SpecNorm == InitNorm /\ [][NextNorm]_vars
Spec == Init /\ [][Next]_vars
SpecNull == Init /\ [][NextNull]_vars
SpecRadar == InitRadar /\ [][NextRadar]_vars
SpecCorrosion == Init /\ [][NextCorrosion]_vars
SpecChat == InitChat /\ [][NextChat]_vars
SpecApi == InitApi /\ [][NextApi]_vars

(***************************************************************************)
(* Vocabulary of the claims.                                               *)
(***************************************************************************)
\* the attributes generate_charts rescales
Rescaled == {"Strength", "Density", "Cost", "Temp"}
KeysOf(a) ==
    CASE a = "Strength" -> StrengthKeys
      [] a = "Density" -> DensityKeys
      [] a = "Cost" -> CostKeys
      [] a = "Temp" -> TempKeys

\* generate_charts returned and went past its early return
Charted == pc = "done" /\ "radar" \in charts
MatchList == report_data.matches.val
PropsOf(i) == MatchList[i].properties.val

\* the label has one of the keywords as a substring, whatever the case
LabelHasKeyword(k, kws) ==
    \E kw \in kws : \E off \in 0..(Len(k) - Len(kw)) :
        \A j \in 1..Len(kw) : lower_char(k[off + j]) = kw[j]
Hits(items, kws) == {j \in 1..Len(items) : LabelHasKeyword(items[j].k, kws)}
\* the parsed value of the first property whose label matches; 0 if none
FirstMatchValue(items, kws) ==
    IF Hits(items, kws) = {} THEN Zero
    ELSE parse_value(items[CHOOSE j \in Hits(items, kws) :
                             \A h \in Hits(items, kws) : j <= h].v)

RSub(a, b) == Rat(a.n * b.d - b.n * a.d, a.d * b.d)
RTimes(a, b) == Rat(a.n * b.n, a.d * b.d)
InRange(r) == r.d > 0 /\ 0 <= r.n /\ r.n <= 100 * r.d

(***************************************************************************)
(* C1.  If all raw values of a rescaled attribute (Strength, Density,      *)
(* Cost, Temp) are zero across the compared materials, generate_charts     *)
(* gives every material the normalized value 0 for that attribute.         *)
(* The code gives 100 for the inverse attributes Density and Cost.         *)
(***************************************************************************)
C1_AllZeroNormalizesToZero ==
    Charted =>
        \A a \in Rescaled :
            (\A i \in 1..Len(raw_data[a]) : raw_data[a][i].n = 0)
            => \A i \in 1..Len(norm_data[a]) : norm_data[a][i].n = 0

(***************************************************************************)
(* C2.  For a string with a digit parse_value returns the number denoted   *)
(* by the first maximal run of digits with at most one decimal point,      *)
(* also when a '.' occurs earlier or the run is followed by a second '.';  *)
(* for a string without a digit it returns 0.0.  The code returns 0.0 for  *)
(* ". 4" and for "4..".                                                    *)
(***************************************************************************)
\* the end of the run of digits that starts at from (from - 1 if none)
DigitRunEnd(s, from) ==
    CHOOSE e \in (from - 1)..Len(s) :
        /\ \A j \in from..e : IsDigit(s[j])
        /\ e = Len(s) \/ ~IsDigit(s[e + 1])
\* the first maximal run of digits with at most one decimal point
FirstNumeral(s) ==
    LET starts == {i \in 1..Len(s) :
                     \/ IsDigit(s[i])
                     \/ s[i] = "." /\ i < Len(s) /\ IsDigit(s[i + 1])}
        p == CHOOSE i \in starts : \A j \in starts : i <= j
        intEnd == DigitRunEnd(s, p)
        fracEnd == IF intEnd < Len(s) /\ s[intEnd + 1] = "."
                   THEN DigitRunEnd(s, intEnd + 2)
                   ELSE intEnd
    IN  SubSeq(s, p, fracEnd)
HasDigit(s) == \E i \in 1..Len(s) : IsDigit(s[i])

\* C2: parse_value returns the first numeral of a text with a digit, else 0.0
C2_ParsesFirstNumber ==
    (pc = "done" /\ text.kind = "str") =>
        IF HasDigit(text.val)
        THEN REq(parsed, float(FirstNumeral(text.val)))
        ELSE parsed.n = 0

(***************************************************************************)
(* C3.  generate_charts completes without raising when a field of its      *)
(* input is missing or null at any level.  The code raises AttributeError  *)
(* for null properties and for a null value under a corrosion label.       *)
(***************************************************************************)
C3_NeverRaises == pc # "raised"

NoMatches == report_data.matches.kind # "val" \/ report_data.matches.val = <<>>
SomePositive(kws) ==
    \E i \in 1..Len(MatchList) : FirstMatchValue(PropsOf(i), kws).n > 0

\* C5: the returned chart keys are exactly those the data calls for
C5_ChartKeys ==
    /\ (NoMatches /\ pc # "idle") => (pc = "done" /\ charts = {})
    /\ (pc = "done" /\ ~NoMatches) =>
          /\ charts \subseteq {"tensile", "density", "radar"}
          /\ "radar" \in charts
          /\ "tensile" \in charts <=> SomePositive(StrengthKeys)
          /\ "density" \in charts <=> SomePositive(DensityKeys)

\* a strength label whose value is 0 and a positive density: the tensile
\* chart is left out, the other two are returned
C5_Witness ==
    /\ pc = "done"
    /\ charts = {"density", "radar"}
    /\ \E i \in 1..Len(MatchList) : Hits(PropsOf(i), StrengthKeys) # {}

(***************************************************************************)
(* C6.  For each numeric attribute the raw value extracted for a material  *)
(* is parse_value of the value of the first property, in insertion order,  *)
(* whose label contains a keyword of the attribute case-insensitively,     *)
(* even when that value parses to 0.0 and a later matching label has a     *)
(* positive value; 0 when no label matches; and the extraction does not    *)
(* modify the properties mapping.                                          *)
(***************************************************************************)
C6_Extracted ==
    Charted =>
        \A i \in 1..Len(MatchList) :
            /\ \A a \in Rescaled :
                  raw_data[a][i] = FirstMatchValue(PropsOf(i), KeysOf(a))
            /\ tensile_data[i][2] = FirstMatchValue(PropsOf(i), StrengthKeys)
            /\ density_data[i][2] = FirstMatchValue(PropsOf(i), DensityKeys)

\* C6: the raw values are those of the first matching labels, always, and
\* generate_charts leaves report_data (so every properties mapping) as it was
C6_FirstMatchWins ==
    /\ []C6_Extracted
    /\ [][pc' # "idle" => report_data' = report_data]_vars

\* the first strength label has the value "0", a later one a positive value
C6_Witness ==
    /\ Charted
    /\ \E i \in 1..Len(MatchList) :
          /\ Cardinality(Hits(PropsOf(i), StrengthKeys)) = 2
          /\ parse_value(PropsOf(i)[1].v).n = 0
          /\ parse_value(PropsOf(i)[2].v).n > 0
          /\ raw_data.Strength[i].n = 0

(***************************************************************************)
(* C7.  normalize returns, with max the maximum of vals (1 when vals is    *)
(* empty or its maximum is 0), output[i] = (vals[i]/max)*100 under direct  *)
(* and (1 - vals[i]/max)*100 under inverse scaling, in the length and      *)
(* order of the input; [50,100] gives [50,100] direct and [50,0] inverse.  *)
(***************************************************************************)
\* the divisor the claim names
ClaimedMax(vs) ==
    IF vs = <<>> \/ \A i \in 1..Len(vs) : vs[i].n = 0 THEN One
    ELSE CHOOSE m \in {vs[i] : i \in 1..Len(vs)} : \A j \in 1..Len(vs) : RLe(vs[j], m)
FiftyHundred == <<Rat(50, 1), Rat(100, 1)>>

\* C7: normalize computes the claimed formula, in length and order
C7_NormalizerFormula ==
    pc = "done" =>
        /\ Len(normalized) = Len(vals)
        /\ \A i \in 1..Len(vals) :
              /\ normalized[i].d > 0
              /\ REq(RTimes(normalized[i], ClaimedMax(vals)),
                     RMul(IF inverse THEN RSub(ClaimedMax(vals), vals[i]) ELSE vals[i],
                          100))
        /\ vals = FiftyHundred =>
              /\ REq(normalized[1], Rat(50, 1))
              /\ REq(normalized[2], IF inverse THEN Zero ELSE Rat(100, 1))

\* [50, 100] normalized with inverse scaling
C7_Witness ==
    /\ pc = "done"
    /\ vals = FiftyHundred
    /\ inverse
    /\ REq(normalized[1], Rat(50, 1))
    /\ normalized[2].n = 0

(***************************************************************************)
(* C8.  A material with no label matching an attribute never scores higher *)
(* for it than a material of the same comparison with a positive parsed    *)
(* value, for each of Strength, Density, Cost and Temp.  For Density and    *)
(* Cost the code gives the material without the label 100, the best score. *)
(***************************************************************************)
C8_MissingIsWorstCase ==
    Charted =>
        \A a \in Rescaled : \A i, j \in 1..Len(MatchList) :
            (Hits(PropsOf(i), KeysOf(a)) = {} /\ raw_data[a][j].n > 0)
            => RLe(norm_data[a][i], norm_data[a][j])

(***************************************************************************)
(* C9.  create_radar_chart leaves every material's 'values' list as it     *)
(* was, so a second call with the same list plots the same closed traces.  *)
(* The code extends each list in place by its first entry.                 *)
(***************************************************************************)
C9_ValuesUnchanged ==
    calls >= 1 =>
        \A i \in 1..Len(radar_materials) :
            radar_materials[i].values = materials_before[i].values

(***************************************************************************)
(* C10.  Every material of the radar chart is drawn in a distinct          *)
(* (color, linestyle) pair, for any number of materials and any two        *)
(* positions.  The code repeats the pair every five materials.             *)
(***************************************************************************)
StyleOf(i) == <<traces[i].color, traces[i].linestyle>>

\* C10 as stated: any two materials differ in (color, linestyle)
C10_AllStylesDistinct ==
    \A i, j \in 1..Len(traces) : i # j => StyleOf(i) # StyleOf(j)

\* C10 as amended: two materials whose positions differ by no multiple of 5
\* (so any two of at most five materials) are drawn in different
\* (color, linestyle) pairs.
C10_StylesDistinctModFive ==
    \A i, j \in 1..Len(traces) :
        (i - j) % PaletteSize # 0 => StyleOf(i) # StyleOf(j)

\* a chart of more than five materials, all plotted
C10_Witness ==
    /\ pc = "done"
    /\ Len(traces) > PaletteSize
    /\ Len(traces) = Len(radar_materials)

(***************************************************************************)
(* C11.  The corrosion score of a material is decided by the value of the  *)
(* first property, in insertion order, whose label contains 'corrosion'    *)
(* case-insensitively: 95 if the value contains 'excellent', else 75 for   *)
(* 'good', else 50 for 'fair', else 25 for 'poor', else 50; 50 when no     *)
(* label matches; it is one of 25, 50, 75, 95 and reaches the radar vector *)
(* without rescaling.                                                      *)
(***************************************************************************)
\* the text has the word as a substring, whatever the case
HasWord(txt, w) == LabelHasKeyword(txt, {w})
RatingOf(txt) ==
    CASE HasWord(txt, kw_excellent) -> 95
      [] ~HasWord(txt, kw_excellent) /\ HasWord(txt, kw_good) -> 75
      [] ~HasWord(txt, kw_excellent) /\ ~HasWord(txt, kw_good)
         /\ HasWord(txt, kw_fair) -> 50
      [] ~HasWord(txt, kw_excellent) /\ ~HasWord(txt, kw_good)
         /\ ~HasWord(txt, kw_fair) /\ HasWord(txt, kw_poor) -> 25
      [] OTHER -> 50
ClaimedCorrosion(items) ==
    IF Hits(items, CorrosionKeys) = {} THEN 50
    ELSE RatingOf(items[CHOOSE j \in Hits(items, CorrosionKeys) :
                          \A h \in Hits(items, CorrosionKeys) : j <= h].v.val)

\* C11: the corrosion entry of every raw, normalized and radar vector is the
\* claimed score
C11_CorrosionScore ==
    Charted =>
        \A i \in 1..Len(MatchList) :
            /\ raw_data.Corrosion[i] = Rat(ClaimedCorrosion(PropsOf(i)), 1)
            /\ norm_data.Corrosion[i] = raw_data.Corrosion[i]
            /\ radar_materials[i].values[4] = raw_data.Corrosion[i]
            /\ raw_data.Corrosion[i].n \in {25, 50, 75, 95}

\* a material whose first corrosion label is rated "poor/good" (75) and
\* whose second is rated "POOR"
C11_Witness ==
    /\ Charted
    /\ \E i \in 1..Len(MatchList) :
          /\ Len(PropsOf(i)) = 2
          /\ PropsOf(i)[1] = [k |-> label_corrosion_upper, v |-> Str(value_mixed)]
          /\ PropsOf(i)[2] = [k |-> label_corrosion, v |-> Str(value_poor)]
          /\ raw_data.Corrosion[i].n = 75

(***************************************************************************)
(* C12.  Inverse normalization ranks lower raw values higher: two          *)
(* materials of one comparison with parsed density (or cost) 0 <= a < b    *)
(* have normalized scores with that of a strictly greater than that of b,  *)
(* and the material with the maximum raw value scores 0.                   *)
(***************************************************************************)
RLess(a, b) == a.n * b.d < b.n * a.d

NoNumber(t) ==
    \/ t.kind # "str"
    \/ ~HasDigit(t.val)
    \/ Cardinality({i \in 1..Len(re_search(t.val)) : re_search(t.val)[i] = "."}) > 1
    \/ \A i \in 1..Len(re_search(t.val)) : re_search(t.val)[i] = "."

C13_ParseValueTotal ==
    /\ pc # "raised"
    /\ pc = "done" =>
          /\ parsed.d > 0
          /\ parsed.n >= 0
          /\ NoNumber(text) => parsed.n = 0

\* the run "4.." was matched, float() raised ValueError, 0.0 was returned
C13_Witness ==
    /\ pc = "done"
    /\ text = Str(<<"4", ".", ".">>)
    /\ parsed.n = 0

(***************************************************************************)
(* C18.  Every call of chat_with_retry ends after at most 5 sends and      *)
(* returns a string without raising: the text of the model at the first    *)
(* send that succeeds; 'Error communicating with AI: ...' at the first     *)
(* error that is neither a rate-limit error nor a 404 with another model   *)
(* to switch to, and at the fifth rate-limited send when there is only one *)
(* model; 'Error: All AI models are currently unavailable or rate          *)
(* limited.' exactly when all 5 sends ended in a retry or a model switch.  *)
(* After every call self.model is available_models[current_model_index].   *)
(***************************************************************************)
RateLimited(e) == HasWord(e, <<"4", "2", "9">>) \/ HasWord(e, kw_quota)
NotFound(e) == HasWord(e, <<"4", "0", "4">>)
OneModel == Len(available_models) = 1
\* the k-th send failed and the call went on: a retry or a model switch
WentOn(k) ==
    /\ ~sends[k].reply.ok
    /\ \/ RateLimited(sends[k].reply.error) /\ (~OneModel \/ k < 5)
       \/ NotFound(sends[k].reply.error) /\ ~OneModel
Returned == chat_pc = "returned"
LastSend == sends[Len(sends)]

C18_ReturnsWithinFiveSends ==
    /\ Len(sends) <= 5
    /\ chat_pc = "sending" => Len(sends) < 5 /\ \A k \in 1..Len(sends) : WentOn(k)
    /\ Returned =>
          /\ Len(sends) >= 1
          /\ \A k \in 1..(Len(sends) - 1) : WentOn(k)
          /\ result.kind \in {Text.kind, CommError(<<>>).kind, Unavailable.kind}
          /\ result = Text <=> LastSend.reply.ok
          /\ result.kind = CommError(<<>>).kind <=>
                ~LastSend.reply.ok /\ ~WentOn(Len(sends))
          /\ result.kind = CommError(<<>>).kind => result.error = LastSend.reply.error
          /\ result = Unavailable <=> Len(sends) = 5 /\ \A k \in 1..5 : WentOn(k)
    /\ chat_pc \in {"idle", "returned"} =>
          model = available_models[current_model_index + 1]

\* the fifth rate-limited send of a client with one model returned
\* 'Error communicating with AI: 429'
C18_Witness ==
    /\ Returned
    /\ OneModel
    /\ Len(sends) = 5
    /\ \A k \in 1..5 : sends[k].reply = [ok |-> FALSE, error |-> err_429]
    /\ result = CommError(err_429)

\* five sends of a client with two models, all rate limited, returned
\* 'Error: All AI models are currently unavailable or rate limited.'
C18_WitnessUnavailable ==
    /\ Returned
    /\ Len(available_models) = 2
    /\ Len(sends) = 5
    /\ result = Unavailable

(***************************************************************************)
(* C14.  In chat_with_retry, when the sends fail with rate-limit errors,   *)
(* the models are tried in priority order starting from the highest-       *)
(* priority model of available_models, and an exponentially growing delay  *)
(* is waited between successive full passes over the model list, whatever  *)
(* the number of models and whatever model an earlier call ended on.       *)
(***************************************************************************)
NumModels == Len(available_models)
AllRateLimited ==
    \A k \in 1..Len(sends) : ~sends[k].reply.ok /\ RateLimited(sends[k].reply.error)
\* the k-th send ended a full pass over the list and the call went on
EndsPass(k) == k % NumModels = 0 /\ (k < Len(sends) \/ chat_pc = "sending")

\* C14 as stated: the k-th send goes to the model of priority rank
\* ((k-1) mod number of models), and the delay after the p-th full pass is
\* at least base_delay * 2^(p-1) seconds
C14_PriorityOrderWithBackoff ==
    AllRateLimited =>
        \A k \in 1..Len(sends) :
            /\ sends[k].model = available_models[((k - 1) % NumModels) + 1]
            /\ EndsPass(k) => sends[k].sleep >= 20 * 2 ^ ((k \div NumModels) - 1)

\* C14 as the code has it: the k-th send goes to the model
\* ((start_index + k - 1) mod number of models), start_index being the index
\* the client had when the call began (0 before the first call); the delay
\* after a rate-limited send is 1 s when there are several models, and with
\* one model 2 * 2^(k-1) s plus at most 1 s, none after the fifth send
C14_CyclicFromCurrentModel ==
    /\ chat_calls <= 1 => start_index = 0
    /\ AllRateLimited =>
        \A k \in 1..Len(sends) :
            /\ sends[k].model = available_models[((start_index + k - 1) % NumModels) + 1]
            /\ NumModels > 1 => sends[k].sleep = 10
            /\ NumModels = 1 /\ k < 5 =>
                  /\ sends[k].sleep >= 20 * 2 ^ (k - 1)
                  /\ sends[k].sleep <= 20 * 2 ^ (k - 1) + 10
            /\ NumModels = 1 /\ k = 5 => sends[k].sleep = 0

\* the second call on a client with two models, the first call having
\* ended on the second model: three rate-limited sends, the first to the
\* second model, one second waited after each
C14_Witness ==
    /\ chat_calls = 2
    /\ NumModels = 2
    /\ start_index = 1
    /\ Len(sends) = 3
    /\ AllRateLimited
    /\ sends[1].model = available_models[2]
    /\ sends[2].model = available_models[1]
    /\ sends[2].sleep = 10

(***************************************************************************)
(* C15.  get_chart responds with status 404 when the session does not      *)
(* exist and when the requested chart_type is not among the charts         *)
(* generated; status 500 is returned only for unexpected failures.         *)
(***************************************************************************)
ChartResponse == response.kind = "chart" /\ response.pc = "done"

C15_NotFoundIs404 ==
    ChartResponse =>
        /\ response.cause \in {"no session", "no chart"} => response.status = 404
        /\ response.status = 500 => response.cause = "failure"

(***************************************************************************)
(* C16.  Every completed chat_endpoint call appends exactly two entries to *)
(* the stored history, the user message then the reply, and removes or     *)
(* overwrites no entry of another call: after any interleaving of n calls  *)
(* on one session the history has 2n entries with every call's message and *)
(* reply, and the title is derived from the first user message only.       *)
(***************************************************************************)
NoChatInProgress == \A i \in 1..Len(requests) : requests[i].kind # "chat"
\* the history has the message of the call replied to last, then its reply
HasLastCall(h) ==
    \E k \in 1..(Len(h) - 1) :
        /\ h[k] = [role |-> "user", content |-> response.message]
        /\ h[k + 1] = [role |-> "assistant",
                       content |-> <<response.reply, Len(response.message)>>]

C16_TwoEntriesPerChat ==
    (session # NoSession /\ NoChatInProgress) =>
        /\ Len(session.history) = 2 * received.replied
        /\ (response.kind = "chat" /\ response.status = 200) => HasLastCall(session.history)
        /\ received.replied > 0 /\ session.history # <<>> =>
              session.title = title_of(session.history[1].content)

(***************************************************************************)
(* C17.  Once a non-empty report_data is stored on a session, every later  *)
(* generate_report or get_chart request uses the stored value and does not *)
(* call generate_report_data again, and chat_endpoint never clears or      *)
(* updates report_data: also when chat messages were appended after it was *)
(* stored and when the stored value is the fallback dict.                  *)
(***************************************************************************)
NonEmptyReport(rd) ==
    rd.kind = "dict" /\ (rd.matches # Missing \/ rd.recommendation # Missing)
Stored == session # NoSession /\ NonEmptyReport(session.report_data)
ViewArrives == received'.view = received.view + 1
ChatStep == received'.chat # received.chat \/ session'.history # session.history
\* the handler goes on to the charts in the step the request arrives in,
\* with the stored value
AnsweredFromStore ==
    /\ requests' = requests
    /\ response'.kind \in {"report", "chart"}
    /\ response'.pc = "render"
    /\ response'.report_data = session.report_data
    /\ ~response'.generated
    /\ UNCHANGED <<session, clientVars>>

C17_StoredReportReused ==
    /\ [][(Stored /\ ViewArrives) => AnsweredFromStore]_vars
    /\ [][(session # NoSession /\ ChatStep) =>
            session'.report_data = session.report_data]_vars

\* a chart request answered from the fallback dict stored before the two
\* entries of a chat call were appended
C17_Witness ==
    /\ ChartResponse
    /\ ~response.generated
    /\ response.report_data = report_fallback(0)
    /\ session # NoSession
    /\ session.report_data = report_fallback(0)
    /\ Len(session.history) = 2

====
